---- MODULE Spec2Model ----
\* Write-through cache provider of swr-idb-cache: an in-memory Map (the Mirror)
\* hydrated from an IndexedDB object store and mirrored back to it by
\* fire-and-forget put / delete / clear requests.
\*
\* Two variants of createCacheProvider exist in the source:
\*   "versioned" : src/unnamed/part_000        (handler sentinel, onError, clear)
\*   "prefix"    : src/src/cache-provider.ts   (key-prefix heuristic, no onError)
EXTENDS Integers, Sequences, FiniteSets, TLC

\* ------------------------------------------------------------------ bounds
MaxPending == 2     \* durable requests in flight at one time
MaxVersion == 2     \* largest schema version passed to the factory
MaxFailures == 1    \* durable request failures observed per provider

\* ------------------------------------------------------------------ values
\* Keys are serialized strings, kept as character sequences so that
\* startsWith can be computed.  K1 = "$i", K2 = "u1".
K1 == <<"$", "i">>
K2 == <<"u", "1">>
Keys == {K1, K2}
\* ascending key order of an IndexedDB cursor ("$" sorts before "u")
KeyOrder == <<K1, K2>>
Null == <<>>

Undefined == [kind |-> "undefined"]

St(d, err, v, l) ==
    [kind |-> "state", data |-> d, error |-> err, isValidating |-> v, isLoading |-> l]

eA    == St("a", "none", FALSE, FALSE)      \* {data: "a"}
eB    == St("b", "none", FALSE, FALSE)      \* {data: "b"}
eVal  == St("a", "none", TRUE, FALSE)       \* {data: "a", isValidating: true}
eLoad == St("none", "none", FALSE, TRUE)    \* {isLoading: true}
eErr  == St("none", "native", FALSE, FALSE) \* {error: new Error()}
ePlain == St("none", "plain", FALSE, FALSE) \* {error: {status: 500}}
Entries == {eA, eB, eVal, eLoad, eErr, ePlain}

Variants == {"versioned", "prefix"}
HandlerNames == {"simple", "custom"}
\* the sets of data values a custom handler may find stale at one construction
StaleChoices == {{}, {"a"}}
\* where a handler passed to one construction throws, if anywhere
Throws == {"never", "upgrade", "revive"}

VARIABLES
    variant,    \* which createCacheProvider is running
    handlerName,\* which storage handler is configured
    stale,      \* data values the handler's revive rejects in this construction
    version,    \* the version option of the current construction
    dbVersion,  \* version recorded by the database (0: database does not exist)
    store,      \* the object store: key -> record
    pc,         \* "closed" | "hydrating" | "ready" | "failed"
    cursor,     \* key under the hydration cursor, Null when exhausted
    map,        \* the Mirror: key -> entry
    pending,    \* durable requests issued and not yet settled, oldest first
    errors,     \* onError invocations of this provider
    unhandled,  \* rejections of this provider that no handler received
    failures,   \* durable request failures of this provider
    lastCall,   \* per key, the latest event that affected it in the Mirror
    fresh,      \* no provider call has been made since construction began
    startup,    \* the object store as the hydration cursor was opened on it
    oldVersion, \* dbVersion as the current construction found it
    throws,     \* where the handler of the current construction throws
    hookCalls,  \* upgradeObjectStore invocations of the current construction
    hydrated,   \* the Mirror as construction returned it
    dirty,      \* a durable request of this provider changed the store
    landed,     \* keys whose latest issued durable request succeeded
    prev,       \* what the previous provider left behind at restart
    carried,    \* key -> entry persisted by the previous provider
    shadow      \* key -> [entry, rec]: entry the previous provider held
                \* unpersisted over the record rec of the store

vars == <<variant, handlerName, stale, version, dbVersion, store, pc, cursor,
          map, pending, errors, unhandled, failures, lastCall, fresh, startup,
          oldVersion, hydrated, dirty, landed, prev, carried,
          throws, hookCalls, shadow>>

config == <<variant, handlerName>>
durable == <<dbVersion, store>>
counters == <<errors, unhandled, failures>>
history == <<prev, carried, shadow>>
boot == <<fresh, startup, oldVersion, throws, hookCalls>>

Empty == [k \in {} |-> Undefined]
NoPrev == [valid |-> FALSE]

\* ------------------------------------------------------------------ helpers
Without(f, k) == [x \in (DOMAIN f) \ {k} |-> f[x]]
With(f, k, v) == [x \in (DOMAIN f) \cup {k} |-> IF x = k THEN v ELSE f[x]]

Pos(k) == CHOOSE i \in 1..Len(KeyOrder) : KeyOrder[i] = k

\* IDBObjectStore.openCursor(): the smallest key of the store, or null
FirstKey(s) ==
    IF DOMAIN s = {} THEN Null
    ELSE CHOOSE k \in DOMAIN s : \A j \in DOMAIN s : Pos(k) <= Pos(j)

\* faulty variant of the loop's advance: the loop ends after its first record
MutNextKeyEnds(s, cur) == Null

\* IDBCursor.continue(): the smallest key of the store above the current one
NextKey(s, cur) ==
    LET rest == {k \in DOMAIN s : Pos(k) > Pos(cur)}
    IN IF rest = {} THEN Null
       ELSE CHOOSE k \in rest : \A j \in rest : Pos(k) <= Pos(j)

\* Map.prototype.get
Get(m, k) == IF k \in DOMAIN m THEN m[k] ELSE Undefined

\* ------------------------------------------------------------------ storage handler
\* "simple": the default handler, identity both ways.
\* "custom": a handler that stores {value: data}, refuses entries that carry
\*           an error and finds the data values of `st` stale.
HandlerReplace(h, key, value) ==
    IF h = "simple" THEN value
    ELSE IF value.kind # "state" \/ value.error # "none" THEN Undefined
    ELSE [kind |-> "stored", value |-> value.data]

HandlerRevive(h, st, key, rec) ==
    IF h = "simple" THEN rec
    ELSE IF rec.kind # "stored" \/ rec.value \in st THEN Undefined
    ELSE St(rec.value, "none", FALSE, FALSE)

\* the custom handler supplies upgradeObjectStore, the default one does not
HandlerHasHook(h) == h = "custom"

\* ------------------------------------------------------------------ predicates of the source
\* faulty variants of isFetchInfo: one of the three tests is missing
MutIsFetchInfoNoLoading(state) ==
    \/ state.error = "native"
    \/ state.isValidating = TRUE

MutIsFetchInfoNoValidating(state) ==
    \/ state.error = "native"
    \/ state.isLoading = TRUE

isFetchInfo(state) ==
    \/ state.error = "native"
    \/ state.isValidating = TRUE
    \/ state.isLoading = TRUE

\* faulty variant of isResponseResult: every key counts as a response
MutIsResponseResultAll(key) == TRUE

isResponseResult(key) == ~(Len(key) > 0 /\ key[1] = "$")

\* ------------------------------------------------------------------ durable requests
PutReq(key, rec, caught) == [op |-> "put", key |-> key, value |-> rec, caught |-> caught]
DeleteReq(key, caught) == [op |-> "delete", key |-> key, value |-> Undefined, caught |-> caught]
ClearReq(caught) == [op |-> "clear", key |-> Null, value |-> Undefined, caught |-> caught]

\* effect of a request that the object store carries out
Apply(s, req) ==
    CASE req.op = "put" -> With(s, req.key, req.value)
      [] req.op = "delete" -> Without(s, req.key)
      [] req.op = "clear" -> Empty

Touches(req, k) == req.op = "clear" \/ req.key = k

\* ------------------------------------------------------------------ openDB
\* part_000 line 27
UpgradeDeletesStore(oldV, v) == oldV # 0 /\ v > oldV

\* The upgrade callback, run by openDB when v > oldV.  createObjectStore throws
\* (and the open is aborted, leaving the database as it was) when the store exists.
Upgrade(var, s, oldV, v) ==
    IF var = "versioned" /\ UpgradeDeletesStore(oldV, v)
    THEN [ok |-> TRUE, store |-> Empty]
    ELSE IF oldV # 0
    THEN [ok |-> FALSE, store |-> s]
    ELSE [ok |-> TRUE, store |-> Empty]

\* openDB(dbName, version, {upgrade}): [ok, store, dbVersion]
OpenDB(var, s, oldV, v) ==
    IF v < oldV THEN [ok |-> FALSE, store |-> s, dbVersion |-> oldV]
    ELSE IF v = oldV THEN [ok |-> TRUE, store |-> s, dbVersion |-> oldV]
    ELSE LET u == Upgrade(var, s, oldV, v)
         IN [ok |-> u.ok, store |-> u.store,
             dbVersion |-> IF u.ok THEN v ELSE oldV]

\* faulty variant of the open: the hook runs on every open
MutUpgradeHookCallsEveryOpen(var, h, s, oldV, v) == IF HandlerHasHook(h) THEN 1 ELSE 0

\* storageHandler.upgradeObjectStore?.(objectStore, ...): invocations made by
\* one openDB; the call follows createObjectStore inside the upgrade callback
UpgradeHookCalls(var, h, s, oldV, v) ==
    IF v > oldV /\ Upgrade(var, s, oldV, v).ok /\ HandlerHasHook(h) THEN 1 ELSE 0

\* ------------------------------------------------------------------ snapshot loop
\* faulty variant of the loop body: the revived value is put in the Map even
\* when it is the stale sentinel
MutHydrateMapKeepsStale(var, h, st, m, key, rec) ==
    With(m, key, HandlerRevive(h, st, key, rec))

\* one pass of the while loop over the record under the cursor
HydrateMap(var, h, st, m, key, rec) ==
    LET value == HandlerRevive(h, st, key, rec)
    IN IF var = "versioned" /\ value = Undefined THEN m
       ELSE With(m, key, value)

\* faulty variant of the pruning branch: cursor.delete() called for every record
MutHydrateStoreDeleteAll(var, h, st, s, key) ==
    IF var = "versioned" THEN Without(s, key) ELSE s

HydrateStore(var, h, st, s, key) ==
    IF var = "versioned" /\ HandlerRevive(h, st, key, s[key]) = Undefined
    THEN Without(s, key)
    ELSE s

\* ------------------------------------------------------------------ provider API
\* faulty variant of set: an existing Mirror entry is not overwritten
MutSetMirrorKeep(m, key, value) ==
    IF key \in DOMAIN m THEN m ELSE With(m, key, value)

SetMirror(m, key, value) == With(m, key, value)

\* faulty variant of set: the entry itself is put, not the handler's storeValue
MutSetRequestsRaw(var, h, key, value) ==
    IF var = "versioned"
    THEN IF isFetchInfo(value) THEN <<>>
         ELSE IF HandlerReplace(h, key, value) = Undefined THEN <<>>
         ELSE <<PutReq(key, value, TRUE)>>
    ELSE IF isResponseResult(key)
         THEN <<PutReq(key, value, FALSE)>>
         ELSE <<>>

\* faulty variant of set: an entry that is not persisted removes the record
\* persisted earlier under its key
MutSetRequestsDeletesIneligible(var, h, key, value) ==
    IF var = "versioned"
    THEN IF isFetchInfo(value) \/ HandlerReplace(h, key, value) = Undefined
         THEN <<DeleteReq(key, TRUE)>>
         ELSE <<PutReq(key, HandlerReplace(h, key, value), TRUE)>>
    ELSE IF isResponseResult(key)
         THEN <<PutReq(key, HandlerReplace(h, key, value), FALSE)>>
         ELSE <<>>

SetRequests(var, h, key, value) ==
    IF var = "versioned"
    THEN IF isFetchInfo(value) THEN <<>>
         ELSE LET storeValue == HandlerReplace(h, key, value)
              IN IF storeValue = Undefined THEN <<>>
                 ELSE <<PutReq(key, storeValue, TRUE)>>
    ELSE IF isResponseResult(key)
         THEN <<PutReq(key, HandlerReplace(h, key, value), FALSE)>>
         ELSE <<>>

DeleteMirror(m, key) == Without(m, key)

\* faulty variants of delete: db.delete never issued, and db.delete issued
\* whatever map.delete returned
MutDeleteRequestsNone(var, m, key) == <<>>

MutDeleteRequestsAlways(var, m, key) ==
    IF var = "versioned" THEN <<DeleteReq(key, TRUE)>>
    ELSE IF isResponseResult(key) THEN <<DeleteReq(key, FALSE)>>
    ELSE <<>>

\* faulty variant of delete: the key-prefix variant forgets the key test
MutDeleteRequestsUnscreened(var, m, key) ==
    IF key \in DOMAIN m THEN <<DeleteReq(key, var = "versioned")>> ELSE <<>>

DeleteRequests(var, m, key) ==
    IF var = "versioned"
    THEN IF key \in DOMAIN m THEN <<DeleteReq(key, TRUE)>> ELSE <<>>
    ELSE IF key \in DOMAIN m /\ isResponseResult(key)
         THEN <<DeleteReq(key, FALSE)>>
         ELSE <<>>

ClearMirror(m) == Empty

\* faulty variant of clear: the Mirror is emptied, the store is left alone
MutClearRequestsNone(var) == <<>>

ClearRequests(var) == <<ClearReq(FALSE)>>

\* ------------------------------------------------------------------ state machine
NoCalls == [k \in Keys |-> [op |-> "none", entry |-> Undefined, issued |-> FALSE]]

Init ==
    /\ variant \in Variants
    /\ handlerName \in HandlerNames
    /\ stale = {}
    /\ version = 0
    /\ dbVersion = 0
    /\ store = Empty
    /\ pc = "closed"
    /\ cursor = Null
    /\ map = Empty
    /\ pending = <<>>
    /\ errors = 0
    /\ unhandled = 0
    /\ failures = 0
    /\ throws = "never"
    /\ hookCalls = 0
    /\ shadow = Empty
    /\ lastCall = NoCalls
    /\ fresh = TRUE
    /\ startup = Empty
    /\ oldVersion = 0
    /\ hydrated = Empty
    /\ dirty = FALSE
    /\ landed = {}
    /\ prev = NoPrev
    /\ carried = Empty

\* createCacheProvider({version: v, storageHandler}) up to the first cursor.
\* An exception thrown inside the upgrade callback aborts the upgrade: openDB
\* rejects and the database stays as it was.
Open(v, st, th) ==
    /\ pc \in {"closed", "failed"}
    /\ handlerName = "simple" => (st = {} /\ th = "never")
    /\ LET o == OpenDB(variant, store, dbVersion, v)
           calls == UpgradeHookCalls(variant, handlerName, store, dbVersion, v)
           ok == o.ok /\ ~(calls > 0 /\ th = "upgrade")
       IN /\ version' = v
          /\ stale' = st
          /\ throws' = th
          /\ hookCalls' = calls
          /\ oldVersion' = dbVersion
          /\ dbVersion' = IF ok THEN o.dbVersion ELSE dbVersion
          /\ store' = IF ok THEN o.store ELSE store
          /\ startup' = IF ok THEN o.store ELSE Empty
          /\ pc' = IF ok THEN "hydrating" ELSE "failed"
          /\ cursor' = IF ok THEN FirstKey(o.store) ELSE Null
    /\ map' = Empty
    /\ fresh' = TRUE
    /\ UNCHANGED <<config, pending, counters, lastCall, hydrated, dirty, landed,
                   history>>

\* faulty variant of the loop: an exception thrown by revive is swallowed and
\* the record skipped, so a provider with a partial Mirror is still returned
MutHydrateStepSkipsThrow ==
    /\ pc = "hydrating"
    /\ cursor # Null
    /\ IF throws = "revive"
       THEN /\ map' = map
            /\ store' = store
       ELSE /\ map' = HydrateMap(variant, handlerName, stale, map, cursor, store[cursor])
            /\ store' = HydrateStore(variant, handlerName, stale, store, cursor)
    /\ cursor' = NextKey(store', cursor)
    /\ UNCHANGED <<config, stale, version, dbVersion, pc, pending, counters, lastCall,
                   boot, hydrated, dirty, landed, history>>

\* one iteration of the while (cursor) loop; an exception thrown by revive
\* rejects the factory promise
HydrateStep ==
    /\ pc = "hydrating"
    /\ cursor # Null
    /\ IF throws = "revive"
       THEN /\ pc' = "failed"
            /\ map' = Empty
            /\ cursor' = Null
            /\ store' = store
       ELSE /\ pc' = pc
            /\ map' = HydrateMap(variant, handlerName, stale, map, cursor, store[cursor])
            /\ store' = HydrateStore(variant, handlerName, stale, store, cursor)
            /\ cursor' = NextKey(store', cursor)
    /\ UNCHANGED <<config, stale, version, dbVersion, pending, counters, lastCall,
                   boot, hydrated, dirty, landed, history>>

\* faulty variant of the end of construction: the provider is returned without
\* waiting for the cursor to run out
MutResolveEarly ==
    /\ pc = "hydrating"
    /\ pc' = "ready"
    /\ cursor' = Null
    /\ hydrated' = map
    /\ lastCall' = [k \in Keys |->
           IF k \in DOMAIN map
           THEN [op |-> "hydrate", entry |-> map[k], issued |-> FALSE]
           ELSE [op |-> "none", entry |-> [kind |-> "undefined"], issued |-> FALSE]]
    /\ UNCHANGED <<config, stale, version, durable, map, pending, counters,
                   boot, dirty, landed, history>>

\* the cursor is exhausted: the factory promise resolves with the provider
Resolve ==
    /\ pc = "hydrating"
    /\ cursor = Null
    /\ pc' = "ready"
    /\ hydrated' = map
    /\ lastCall' = [k \in Keys |->
           IF /\ k \in DOMAIN map
              /\ k \in DOMAIN startup
              /\ HandlerRevive(handlerName, stale, k, startup[k]) # Undefined
           THEN [op |-> "hydrate", entry |-> map[k], issued |-> FALSE]
           ELSE NoCalls[k]]
    /\ UNCHANGED <<config, stale, version, durable, cursor, map, pending, counters,
                   boot, dirty, landed, history>>

\* bookkeeping of a provider call: what is remembered about the construction
\* and about the previous provider is dropped once the provider is used
Called ==
    /\ fresh' = FALSE
    /\ startup' = Empty
    /\ oldVersion' = 0
    /\ throws' = "never"
    /\ hookCalls' = 0
    /\ prev' = NoPrev
    /\ carried' = Empty
    /\ shadow' = Empty

\* faulty variant of set: the put is awaited, the store is written before set
\* returns and set cannot run while a request is in flight
MutSetAwaitsPut(key, value) ==
    /\ pc = "ready"
    /\ pending = <<>>
    /\ LET reqs == SetRequests(variant, handlerName, key, value)
       IN /\ store' = IF reqs = <<>> THEN store ELSE Apply(store, reqs[1])
          /\ lastCall' = [lastCall EXCEPT ![key] =
                 [op |-> "set", entry |-> value, issued |-> reqs # <<>>]]
    /\ map' = SetMirror(map, key, value)
    /\ landed' = landed \ {key}
    /\ Called
    /\ UNCHANGED <<config, stale, version, dbVersion, pc, cursor, pending, counters,
                   hydrated, dirty>>

Set(key, value) ==
    /\ pc = "ready"
    /\ LET reqs == SetRequests(variant, handlerName, key, value)
       IN /\ Len(pending) + Len(reqs) <= MaxPending
          /\ pending' = pending \o reqs
          /\ lastCall' = [lastCall EXCEPT ![key] =
                 [op |-> "set", entry |-> value, issued |-> reqs # <<>>]]
    /\ map' = SetMirror(map, key, value)
    /\ landed' = landed \ {key}
    /\ Called
    /\ UNCHANGED <<config, stale, version, durable, pc, cursor, counters, hydrated,
                   dirty>>

Delete(key) ==
    /\ pc = "ready"
    /\ LET reqs == DeleteRequests(variant, map, key)
       IN /\ Len(pending) + Len(reqs) <= MaxPending
          /\ pending' = pending \o reqs
          /\ lastCall' = [lastCall EXCEPT ![key] =
                 IF key \in DOMAIN map
                 THEN [op |-> "delete", entry |-> Undefined, issued |-> reqs # <<>>]
                 ELSE @]
          /\ landed' = IF key \in DOMAIN map THEN landed \ {key} ELSE landed
    /\ map' = DeleteMirror(map, key)
    /\ Called
    /\ UNCHANGED <<config, stale, version, durable, pc, cursor, counters, hydrated,
                   dirty>>

Clear ==
    /\ pc = "ready"
    /\ variant = "versioned"
    /\ LET reqs == ClearRequests(variant)
       IN /\ Len(pending) + Len(reqs) <= MaxPending
          /\ pending' = pending \o reqs
          /\ lastCall' = [k \in Keys |->
                 [op |-> "clear", entry |-> Undefined, issued |-> reqs # <<>>]]
    /\ map' = ClearMirror(map)
    /\ landed' = {}
    /\ Called
    /\ UNCHANGED <<config, stale, version, durable, pc, cursor, counters, hydrated,
                   dirty>>

\* the object store carries out the oldest request (transactions on one store
\* run in the order they were created)
SettleOk ==
    /\ pc = "ready"
    /\ pending # <<>>
    /\ LET req == Head(pending)
           rest == Tail(pending)
           latest == {k \in Keys : /\ Touches(req, k)
                                   /\ lastCall[k].issued
                                   /\ \A i \in 1..Len(rest) : ~Touches(rest[i], k)}
       IN /\ store' = Apply(store, req)
          /\ pending' = rest
          /\ landed' = landed \cup latest
    /\ dirty' = TRUE
    /\ hydrated' = Empty
    /\ UNCHANGED <<config, stale, version, dbVersion, pc, cursor, map, counters,
                   lastCall, boot, history>>

\* the oldest request fails: the promise rejects, and .catch(onError) runs if
\* the call site attached it
SettleFail ==
    /\ pc = "ready"
    /\ pending # <<>>
    /\ failures < MaxFailures
    /\ LET req == Head(pending)
       IN /\ pending' = Tail(pending)
          /\ failures' = failures + 1
          /\ errors' = IF req.caught THEN errors + 1 ELSE errors
          /\ unhandled' = IF req.caught THEN unhandled ELSE unhandled + 1
    /\ UNCHANGED <<config, stale, version, durable, pc, cursor, map, lastCall, boot,
                   hydrated, dirty, landed, history>>

Persisted == {k \in Keys : lastCall[k].op = "set" /\ k \in landed}

\* keys whose last call was a set that issued no request, over a stored record
Shadowed == {k \in DOMAIN store : lastCall[k].op = "set" /\ ~lastCall[k].issued}

\* the page is reloaded: the provider and its unsettled requests are gone
Restart ==
    /\ pc = "ready"
    /\ pc' = "closed"
    /\ prev' = IF dirty THEN NoPrev
               ELSE [valid |-> TRUE, map |-> hydrated, stale |-> stale,
                     version |-> version]
    /\ carried' = [k \in Persisted |-> lastCall[k].entry]
    /\ shadow' = [k \in Shadowed |-> [entry |-> lastCall[k].entry, rec |-> store[k]]]
    /\ throws' = "never"
    /\ hookCalls' = 0
    /\ map' = Empty
    /\ pending' = <<>>
    /\ errors' = 0
    /\ unhandled' = 0
    /\ failures' = 0
    /\ lastCall' = NoCalls
    /\ fresh' = TRUE
    /\ startup' = Empty
    /\ oldVersion' = 0
    /\ hydrated' = Empty
    /\ dirty' = FALSE
    /\ landed' = {}
    /\ stale' = {}
    /\ UNCHANGED <<config, version, durable, cursor>>

Next ==
    \/ \E v \in 1..MaxVersion, st \in StaleChoices, th \in Throws : Open(v, st, th)
    \/ HydrateStep
    \/ Resolve
    \/ \E k \in Keys, e \in Entries : Set(k, e)
    \/ \E k \in Keys : Delete(k)
    \/ Clear
    \/ SettleOk
    \/ SettleFail
    \/ Restart

Spec == Init /\ [][Next]_vars

\* ------------------------------------------------------------------ vocabulary of the claims
\* transient in-flight state, as the specification words it
Transient(e) == e.error = "native" \/ e.isValidating \/ e.isLoading

\* an entry the provider is to persist under the configured handler
Persistable(k, e) ==
    /\ ~Transient(e)
    /\ HandlerReplace(handlerName, k, e) # Undefined

\* the value the latest Mirror-affecting event of key k implies for get(k)
Implied(k) ==
    IF lastCall[k].op \in {"hydrate", "set"} THEN lastCall[k].entry ELSE Undefined

\* the provider has just been returned by the factory
Returned == pc = "ready" /\ fresh

\* ------------------------------------------------------------------ C1
\* C1: after any sequence of set / delete / clear calls, whatever the durable
\* requests did, get(key) is the entry of the last set of that key, missing
\* after a delete or clear, and the hydrated entry if no call touched the key;
\* a durable request that settles leaves the Mirror as it was.
C1_MirrorFollowsLastCall ==
    /\ [](pc = "ready" => \A k \in Keys : Get(map, k) = Implied(k))
    /\ [][(pc = "ready" /\ pc' = "ready" /\ Len(pending') < Len(pending))
             => map' = map]_vars

C1_Witness ==
    /\ pc = "ready"
    /\ failures > 0
    /\ dirty
    /\ lastCall[K1].op = "set"
    /\ Get(map, K1) = lastCall[K1].entry
    /\ lastCall[K2].op = "delete"
    /\ K2 \in DOMAIN store
    /\ K2 \notin DOMAIN map

\* ------------------------------------------------------------------ C2
\* C2 as stated: after hydration no key whose Mirror entry is transient has a
\* record in the durable store.
C2_Original ==
    (variant = "versioned" /\ pc = "ready")
        => \A k \in DOMAIN store : ~(k \in DOMAIN map /\ Transient(map[k]))

\* C2 amended: after hydration no record of the durable store was produced
\* from a transient entry: each is replace(key, e) of an entry e that is not
\* transient (a record persisted earlier stays when a transient entry is set
\* over it).
C2_NoRecordOfTransientEntry ==
    (variant = "versioned" /\ pc = "ready")
        => \A k \in DOMAIN store :
              \E e \in Entries : Persistable(k, e)
                                 /\ store[k] = HandlerReplace(handlerName, k, e)

C2_Witness ==
    /\ variant = "versioned"
    /\ pc = "ready"
    /\ handlerName = "simple"
    /\ K2 \in DOMAIN map
    /\ map[K2] = eLoad
    /\ K2 \in DOMAIN store
    /\ store[K2] = eA

\* ------------------------------------------------------------------ C3
\* C3 as stated: after hydration the keys of the durable store are a subset of
\* the keys of the Mirror.
C3_Original == pc = "ready" => DOMAIN store \subseteq DOMAIN map

\* request req asks the store to drop the record of key k
Removes(req, k) == req.op \in {"delete", "clear"} /\ Touches(req, k)

\* a request of this provider failed, and the last call on key k was a delete
\* or clear whose request has not landed
RemovalFailed(k) ==
    /\ failures > 0
    /\ lastCall[k].op \in {"delete", "clear"}
    /\ lastCall[k].issued
    /\ k \notin landed

\* C3 amended: after hydration every key that has a record in the durable
\* store is a key of the Mirror, except a key for which a durable delete, or a
\* clear, is still pending or has failed; puts that are pending or have failed
\* never take a key out of the subset.
C3_SubsetUnlessRemovalOutstanding ==
    pc = "ready" =>
        \A k \in DOMAIN store :
            \/ k \in DOMAIN map
            \/ \E i \in 1..Len(pending) : Removes(pending[i], k)
            \/ RemovalFailed(k)

\* one put has landed, a second has failed and a third is pending
C3_Witness ==
    /\ pc = "ready"
    /\ failures = 1
    /\ Len(pending) = 1
    /\ pending[1].op = "put"
    /\ pending[1].key = K2
    /\ dirty
    /\ lastCall[K1].op = "set"
    /\ lastCall[K2].op = "set"
    /\ DOMAIN store = {K1}
    /\ DOMAIN map = Keys

\* ------------------------------------------------------------------ C4
\* C4 as stated: a startup record that revive finds stale is, when hydration
\* completes, in neither the Mirror nor the durable store.
C4_Original ==
    Returned => \A k \in DOMAIN startup :
        HandlerRevive(handlerName, stale, k, startup[k]) = Undefined
            => (k \notin DOMAIN map /\ k \notin DOMAIN store)

\* ------------------------------------------------------------------ C5
\* C5: in the versioned variant a set(key, entry) makes get(key) return the
\* entry at once; when the entry is transient or replace returns undefined
\* the call issues no durable request, and otherwise it issues exactly one
\* put of replace(key, entry) under that key.
C5_OnlyEligibleSetsPut ==
    [][variant = "versioned" =>
        \A k \in Keys, e \in Entries : Set(k, e) =>
            /\ Get(map', k) = e
            /\ ~Persistable(k, e) => (pending' = pending /\ store' = store)
            /\ Persistable(k, e) =>
                  pending' = Append(pending,
                      PutReq(k, HandlerReplace(handlerName, k, e), TRUE))]_vars

C5_Witness ==
    /\ variant = "versioned"
    /\ pc = "ready"
    /\ ~fresh
    /\ K2 \in DOMAIN map
    /\ map[K2] = eVal
    /\ lastCall[K2].op = "set"
    /\ ~lastCall[K2].issued
    /\ pending = <<>>
    /\ ~dirty
    /\ failures = 0

\* ------------------------------------------------------------------ C6
\* C6: a store populated at version N and reopened at a greater version is
\* deleted and recreated before hydration: the durable store is empty and the
\* hydrated Mirror is empty.
C6_Original ==
    (fresh /\ pc \in {"hydrating", "ready", "failed"}
           /\ oldVersion # 0 /\ version > oldVersion)
        => (store = Empty /\ (pc = "ready" => map = Empty))

\* ------------------------------------------------------------------ C7
\* C7: in the versioned variant, if the last call on a key was a set of a
\* persistable entry whose put succeeded, a provider constructed next at the
\* unchanged version returns revive(key, replace(key, entry)) from get(key),
\* which is the entry itself under the default handler; opening the database
\* at its current version leaves every record in place.
C7_RoundTripAcrossRestart ==
    /\ []((variant = "versioned" /\ Returned /\ version = oldVersion) =>
            \A k \in DOMAIN carried : Persistable(k, carried[k]) =>
               /\ Get(map, k) = HandlerRevive(handlerName, stale, k,
                                    HandlerReplace(handlerName, k, carried[k]))
               /\ handlerName = "simple" => Get(map, k) = carried[k])
    /\ [][(pc \in {"closed", "failed"} /\ pc' = "hydrating" /\ version' = dbVersion)
             => store' = store]_vars

C7_Witness ==
    /\ variant = "versioned"
    /\ handlerName = "custom"
    /\ Returned
    /\ version = oldVersion
    /\ K2 \in DOMAIN carried
    /\ carried[K2] = eA
    /\ Get(map, K2) = eA
    /\ K2 \in DOMAIN store

\* ------------------------------------------------------------------ C8
\* C8: a provider constructed over a durable store that no request changed
\* since the previous construction, with the same version and the same
\* handler, hydrates the same Mirror, and its hydration deletes no record.
C8_HydrationIdempotent ==
    (Returned /\ prev.valid) =>
        ((prev.stale = stale /\ prev.version = version)
            => (map = prev.map /\ store = startup))

C8_Witness ==
    /\ variant = "versioned"
    /\ Returned
    /\ prev.valid
    /\ prev.stale = stale
    /\ prev.version = version
    /\ stale # {}
    /\ K1 \in DOMAIN map
    /\ K2 \notin DOMAIN map
    /\ map = prev.map
    /\ store = startup

\* ------------------------------------------------------------------ C9
\* C9: every failure of a durable put, delete or clear issued by the provider
\* has been handed to onError exactly once.
C9_Original == variant = "versioned" => errors = failures

\* ------------------------------------------------------------------ C10
\* C10: delete(key) of a key that is not in the Mirror leaves the Mirror as it
\* was and issues no durable request.
C10_DeleteAbsentIsNoOp ==
    [][\A k \in Keys : (Delete(k) /\ k \notin DOMAIN map)
          => (map' = map /\ pending' = pending /\ store' = store)]_vars

C10_Witness ==
    /\ pc = "ready"
    /\ ~fresh
    /\ lastCall = NoCalls
    /\ map = Empty
    /\ pending = <<>>
    /\ ~dirty
    /\ failures = 0

\* ------------------------------------------------------------------ C11
\* the Mirror already shows what request r asks the durable store to do
Reflected(m, r) ==
    CASE r.op = "put" -> r.key \in DOMAIN m
      [] r.op = "delete" -> r.key \notin DOMAIN m
      [] r.op = "clear" -> m = Empty

\* C11: a call that issues a durable request returns with the Mirror updated,
\* the durable store untouched and the request (and every older one) pending;
\* the store changes only when a pending request settles; and while requests
\* are pending (and the model's queue has room) every set, delete and clear
\* can still be carried out.
C11_FireAndForget ==
    /\ [][(pc = "ready" /\ pc' = "ready" /\ Len(pending') > Len(pending)) =>
            /\ Len(pending') = Len(pending) + 1
            /\ \A i \in 1..Len(pending) : pending'[i] = pending[i]
            /\ Reflected(map', pending'[Len(pending')])
            /\ store' = store]_vars
    /\ [][(pc = "ready" /\ pc' = "ready" /\ store' # store)
             => Len(pending') < Len(pending)]_vars
    /\ []((pc = "ready" /\ pending # <<>> /\ Len(pending) < MaxPending) =>
            /\ \A k \in Keys, e \in Entries : ENABLED Set(k, e)
            /\ \A k \in Keys : ENABLED Delete(k)
            /\ variant = "versioned" => ENABLED Clear)

C11_Witness ==
    /\ variant = "versioned"
    /\ pc = "ready"
    /\ Len(pending) = 2
    /\ pending[1].op = "put"
    /\ pending[1].key = K2
    /\ pending[2].op = "delete"
    /\ K2 \notin DOMAIN map
    /\ K2 \notin DOMAIN store
    /\ ~dirty
    /\ failures = 0


\* ------------------------------------------------------------------ C12
\* every request this provider issued has settled, and settled successfully
Quiescent == pc = "ready" /\ pending = <<>> /\ failures = 0

\* the store once the requests of queue q have landed on s in issue order
RECURSIVE LandAll(_, _)
LandAll(s, q) == IF q = <<>> THEN s ELSE LandAll(Apply(s, Head(q)), Tail(q))

\* the store s holds for key k what the Mirror implies
AgreesIn(s, k) ==
    /\ (k \in DOMAIN map /\ Persistable(k, map[k])) =>
           /\ k \in DOMAIN s
           /\ s[k] = HandlerReplace(handlerName, k, map[k])
    /\ k \notin DOMAIN map => k \notin DOMAIN s

\* C12: in the versioned variant, once every request the provider issued has
\* settled successfully the durable store agrees with the Mirror on every key:
\* it holds replace(key, entry) where the Mirror holds a persistable entry and
\* no record where the Mirror has no key. While requests are in flight and
\* none has failed, the store they leave when they land agrees with the Mirror,
\* however many of them overlap on one key.
C12_EventuallyAgrees ==
    /\ (variant = "versioned" /\ Quiescent) => \A k \in Keys : AgreesIn(store, k)
    /\ (variant = "versioned" /\ pc = "ready" /\ failures = 0) =>
           \A k \in Keys : AgreesIn(LandAll(store, pending), k)

\* a set and a delete have both landed: the store holds the record the Mirror
\* implies for one key and nothing for the deleted one
C12_Witness ==
    /\ variant = "versioned"
    /\ Quiescent
    /\ dirty
    /\ lastCall[K1].op = "delete"
    /\ lastCall[K1].issued
    /\ lastCall[K2].op = "set"
    /\ K2 \in landed
    /\ store = With(Empty, K2, HandlerReplace(handlerName, K2, map[K2]))

\* ------------------------------------------------------------------ C13
\* the upgrade hook of the construction that is starting throws
HookThrows == hookCalls' > 0 /\ throws' = "upgrade"

\* some provider operation can be carried out
Callable ==
    \/ ENABLED (\E k \in Keys, e \in Entries : Set(k, e))
    \/ ENABLED (\E k \in Keys : Delete(k))
    \/ ENABLED Clear

\* C13: construction is all-or-nothing. It reaches the cursor only if the open
\* succeeded and the upgrade hook did not throw; a revive that throws on a
\* record ends it as failed; a provider is returned only from hydration with an
\* exhausted cursor; and a failed construction has returned no provider: no
\* Mirror is kept and no provider operation can be carried out.
C13_ConstructionAllOrNothing ==
    /\ [][(pc # "hydrating" /\ pc' = "hydrating") =>
             /\ OpenDB(variant, store, dbVersion, version').ok
             /\ ~HookThrows]_vars
    /\ [][(pc = "hydrating" /\ cursor # Null /\ throws = "revive") => pc' = "failed"]_vars
    /\ [][(pc # "ready" /\ pc' = "ready") =>
             /\ pc = "hydrating"
             /\ cursor = Null
             /\ throws = "revive" => startup = Empty]_vars
    /\ [](pc = "failed" => (map = Empty /\ ~Callable /\ ~ENABLED Resolve))

\* a construction over two records failed because revive threw
C13_Witness ==
    /\ variant = "versioned"
    /\ pc = "failed"
    /\ throws = "revive"
    /\ DOMAIN startup = Keys
    /\ store = startup
    /\ map = Empty

\* ------------------------------------------------------------------ C14
\* the key begins with the reserved marker
DollarKey(k) == Len(k) > 0 /\ Head(k) = "$"

\* C14: in the key-prefix variant no put or delete is ever pending for a key
\* that begins with '$', the durable store never holds a record under such a
\* key, and the Mirror still returns the value last set under such a key.
C14_DollarKeysNeverPersisted ==
    variant = "prefix" =>
        /\ \A i \in 1..Len(pending) :
               pending[i].op \in {"put", "delete"} => ~DollarKey(pending[i].key)
        /\ \A k \in DOMAIN store : ~DollarKey(k)
        /\ \A k \in Keys :
               (pc = "ready" /\ DollarKey(k) /\ lastCall[k].op = "set") =>
                   Get(map, k) = lastCall[k].entry

\* a '$' key and a response key were set and every request has landed
C14_Witness ==
    /\ variant = "prefix"
    /\ pc = "ready"
    /\ lastCall[K1].op = "set"
    /\ Get(map, K1) = eA
    /\ lastCall[K2].op = "set"
    /\ K2 \in landed
    /\ pending = <<>>
    /\ failures = 0
    /\ DOMAIN store = {K2}

\* ------------------------------------------------------------------ C15
\* C15: in the versioned variant every key of the Mirror was inserted during
\* hydration from a durable record that revive did not find stale, or was
\* written by a set call after hydration and not removed since.
C15_MirrorKeysAccounted ==
    variant = "versioned" =>
        \A k \in DOMAIN map :
            /\ pc = "hydrating" =>
                   /\ k \in DOMAIN startup
                   /\ HandlerRevive(handlerName, stale, k, startup[k]) # Undefined
            /\ pc = "ready" => lastCall[k].op \in {"hydrate", "set"}
            /\ pc \in {"hydrating", "ready"}

\* hydration found one record stale and loaded the other
C15_Witness ==
    /\ variant = "versioned"
    /\ Returned
    /\ DOMAIN startup = Keys
    /\ K1 \notin DOMAIN map
    /\ K2 \in DOMAIN map
    /\ lastCall[K1].op = "none"
    /\ lastCall[K2].op = "hydrate"

\* ------------------------------------------------------------------ C16
\* records the cursor of the running construction has not been moved past
Unprocessed ==
    IF pc = "hydrating" /\ cursor # Null
    THEN {k \in DOMAIN store : Pos(k) >= Pos(cursor)}
    ELSE {}

\* C16: while a construction is hydrating no provider operation can be carried
\* out; a provider exists only with the cursor exhausted; and the provider just
\* returned has every startup record in its Mirror, except the records the
\* versioned variant found stale.
C16_NoPartialMirror ==
    /\ pc = "hydrating" => ~Callable
    /\ pc = "ready" => (cursor = Null /\ Unprocessed = {})
    /\ Returned =>
           \A k \in DOMAIN startup :
               \/ k \in DOMAIN map
               \/ /\ variant = "versioned"
                  /\ HandlerRevive(handlerName, stale, k, startup[k]) = Undefined

\* a construction has loaded the first of two records and not yet the second
C16_Witness ==
    /\ pc = "hydrating"
    /\ DOMAIN startup = Keys
    /\ DOMAIN map = {K1}
    /\ Unprocessed = {K2}

\* ------------------------------------------------------------------ C17
\* this step is a delete(k) that found k in the Mirror
DeleteStep(k) ==
    /\ pc = "ready"
    /\ k \in DOMAIN map
    /\ k \notin DOMAIN map'
    /\ lastCall'[k].op = "delete"

\* this step issues a durable delete for key k and nothing else
IssuesDelete(k) ==
    /\ Len(pending') = Len(pending) + 1
    /\ SubSeq(pending', 1, Len(pending)) = pending
    /\ pending'[Len(pending')].op = "delete"
    /\ pending'[Len(pending')].key = k

\* this step issues a durable delete
IssuesSomeDelete ==
    /\ pc = "ready" /\ pc' = "ready"
    /\ Len(pending') > Len(pending)
    /\ pending'[Len(pending')].op = "delete"

\* what the provider would persist under key k: the key test of the key-prefix
\* variant, the entry test of the versioned variant
Eligible(k) ==
    IF variant = "prefix" THEN ~DollarKey(k)
    ELSE k \in DOMAIN map /\ Persistable(k, map[k])

\* the key test alone: every key passes in the versioned variant
EligibleKey(k) == variant = "prefix" => ~DollarKey(k)

\* C17 as stated: delete(key) issues a durable delete if and only if the key
\* was in the Mirror and is eligible for persistence; a delete of a Mirror key
\* that is not eligible issues nothing.
C17_Original ==
    /\ [][\A k \in Keys : DeleteStep(k) =>
             IF Eligible(k) THEN IssuesDelete(k)
             ELSE pending' = pending /\ store' = store]_vars
    /\ [][IssuesSomeDelete =>
             LET k == pending'[Len(pending')].key
             IN k \in DOMAIN map /\ Eligible(k)]_vars

\* C17 amended: delete(key) issues a durable delete if and only if the key was
\* in the Mirror and, in the key-prefix variant, does not begin with '$'; the
\* versioned variant issues it for every key of the Mirror, whatever entry the
\* key holds.
C17_DeleteIssuedForPresentKey ==
    /\ [][\A k \in Keys : DeleteStep(k) =>
             IF EligibleKey(k) THEN IssuesDelete(k)
             ELSE pending' = pending /\ store' = store]_vars
    /\ [][IssuesSomeDelete =>
             LET k == pending'[Len(pending')].key
             IN k \in DOMAIN map /\ EligibleKey(k)]_vars

\* the versioned provider has a delete pending for a key that only ever held an
\* entry it does not persist
C17_Witness ==
    /\ variant = "versioned"
    /\ pc = "ready"
    /\ store = Empty
    /\ ~dirty
    /\ pending = <<DeleteReq(K2, TRUE)>>
    /\ lastCall[K2].op = "delete"
    /\ failures = 0
    /\ K2 \notin DOMAIN map

\* ------------------------------------------------------------------ C18
\* what the current construction found and did is still on record
InConstruction == pc \in {"hydrating", "failed"} \/ Returned

\* C18: in the versioned variant, with a handler that supplies
\* upgradeObjectStore, the hook is invoked once in a construction that opens the
\* database at a higher version than it found (none counting as version 0) and
\* not at all otherwise; when it was invoked the store it was given is the
\* freshly created, empty one, so no record is left for revive.
C18_HookOncePerUpgrade ==
    (variant = "versioned" /\ HandlerHasHook(handlerName) /\ InConstruction) =>
        /\ hookCalls = (IF version > oldVersion THEN 1 ELSE 0)
        /\ hookCalls > 0 => (startup = Empty /\ map = Empty /\ cursor = Null)

\* a database whose store held a persisted record was reopened at a higher
\* version and the provider returned
C18_Witness ==
    /\ variant = "versioned"
    /\ HandlerHasHook(handlerName)
    /\ Returned
    /\ oldVersion = 1
    /\ version = 2
    /\ hookCalls = 1
    /\ carried # Empty
    /\ store = Empty

\* ------------------------------------------------------------------ C19
\* the startup records whose revived value is not the stale sentinel
Live == {k \in DOMAIN startup :
            HandlerRevive(handlerName, stale, k, startup[k]) # Undefined}

\* C19: when the versioned factory resolves, the keys of the Mirror are exactly
\* the keys of the startup records that revive did not find stale, each mapped
\* to the revived value of its record, and the durable store holds exactly
\* those records.
C19_HydrationDrainsStore ==
    (variant = "versioned" /\ Returned) =>
        /\ DOMAIN map = Live
        /\ \A k \in Live : map[k] = HandlerRevive(handlerName, stale, k, startup[k])
        /\ DOMAIN store = Live
        /\ \A k \in Live : store[k] = startup[k]

\* hydration loaded the first of two records and pruned the second
C19_Witness ==
    /\ variant = "versioned"
    /\ Returned
    /\ DOMAIN startup = Keys
    /\ Live = {K1}
    /\ DOMAIN map = {K1}
    /\ DOMAIN store = {K1}

\* ------------------------------------------------------------------ C20
\* this step is a set of key k to an entry the provider does not persist
IneligibleSetStep(k) ==
    /\ pc = "ready"
    /\ lastCall'[k] # lastCall[k]
    /\ lastCall'[k].op = "set"
    /\ ~Persistable(k, lastCall'[k].entry)

\* C20: in the versioned variant a set of an entry that is not persisted
\* leaves the durable store and its pending requests as they were; and when
\* the provider is restarted with such an entry as the last one set under a
\* key that has a record, the next provider, opened at the same version, holds
\* under that key what revive makes of that record, not the entry last set.
C20_IneligibleSetKeepsRecord ==
    /\ [][variant = "versioned" =>
            \A k \in Keys : IneligibleSetStep(k) =>
                (store' = store /\ pending' = pending)]_vars
    /\ []((variant = "versioned" /\ Returned) =>
            \A k \in DOMAIN shadow :
                /\ Get(map, k) # shadow[k].entry
                /\ version = oldVersion =>
                       Get(map, k) =
                           HandlerRevive(handlerName, stale, k, shadow[k].rec))

\* the previous provider held an unpersisted entry over a record, and the
\* provider now returned holds the revived record instead
C20_Witness ==
    /\ variant = "versioned"
    /\ Returned
    /\ version = oldVersion
    /\ K2 \in DOMAIN shadow
    /\ shadow[K2].entry = eVal
    /\ K2 \in DOMAIN map
    /\ map[K2] = HandlerRevive(handlerName, stale, K2, shadow[K2].rec)
====
